---- MODULE Spec2Model ----
(***************************************************************************)
(* Model of drift_gui_pygame.py: the main loop of the PS5 drift tester.    *)
(*                                                                         *)
(* Analog values (axis readings, deadzone, trigger outputs) are Python     *)
(* floats in the source; here they are integers counting thousandths, so   *)
(* 0.06 is 60, -0.2 is -200 and 1.0 is 1000.  Every reading used below is  *)
(* an even number of thousandths, so (v + 1.0) / 2.0 is exact.             *)
(*                                                                         *)
(* One iteration of "while running" (a tick) is the sequence               *)
(*   Get ; event handlers ; EndEvents ; (NoController | Sample ; Normalize)  *)
(* with pc naming the position in the loop body.                           *)
(***************************************************************************)
EXTENDS Integers, Sequences, FiniteSets, TLC

VARIABLES
    devices,     \* the library's enumerated joystick list, in enumeration order
    joystick,    \* global joystick: the open device, or None
    ds,          \* global ds: "ok" when the haptic driver initialised, else "None"
    deadzone,    \* global deadzone, thousandths
    show_debug,  \* global show_debug
    running,     \* global running
    pc,          \* position in the main loop
    nev,         \* events of pygame.event.get() not yet dispatched this tick
    hot,         \* of those, the JOYDEVICEADDED / JOYDEVICEREMOVED events
    ev,          \* loop variable ev: the event dispatched last in this tick
    pending,     \* hot-plug events queued by the pump of line 196 for the next tick
    raw,         \* axes / buttons / hats lists read in this tick
    frame,       \* what this tick has drawn
    log,         \* "Vibration test failed" was printed in this tick
    crashed      \* an exception left the main loop

vars == <<devices, joystick, ds, deadzone, show_debug, running, pc, nev, hot,
          ev, pending, raw, frame, log, crashed>>

(***************************************************************************)
(* Bounds of the model.                                                    *)
(***************************************************************************)
MaxDevices == 2      \* device ids 1..MaxDevices
MaxEvents  == 2      \* events returned by one pygame.event.get()
MaxAxes    == 6      \* capability counts explored for the normalizer
MaxButtons == 14
MaxHats    == 1

(***************************************************************************)
(* Program constants.                                                      *)
(***************************************************************************)
DEADZONE     == 60
DEADZONE_STEP == 10
DEADZONE_MIN == 0
DEADZONE_MAX == 500
None         == 0

AXIS_LX == 0
AXIS_LY == 1
AXIS_RX == 2
AXIS_RY == 3
AXIS_L2 == 4
AXIS_R2 == 5

BTN_X        == 0
BTN_CIRCLE   == 1
BTN_SQUARE   == 2
BTN_TRIANGLE == 3
BTN_L2       == 6
BTN_R2       == 7
BTN_PS       == 12
BTN_TOUCH    == 13

Abs(x) == IF x < 0 THEN -x ELSE x
Min2(a, b) == IF a < b THEN a ELSE b
Max2(a, b) == IF a > b THEN a ELSE b

(***************************************************************************)
(* find_joystick: Joystick(0) of the enumerated list, None when empty.     *)
(***************************************************************************)
find_joystick_last(devs) ==
    IF Len(devs) = 0 THEN None ELSE devs[Len(devs)]

find_joystick(devs) ==
    IF Len(devs) = 0 THEN None ELSE devs[1]

(***************************************************************************)
(* Device capabilities (get_numaxes / get_numbuttons / get_numhats).       *)
(* Device 1 is a fully enumerated DualSense; device 2 a partially          *)
(* enumerated pad with no trigger axes, no R2 button and no hat; any other *)
(* device reports nothing.                                                 *)
(***************************************************************************)
Caps(na, nb, nh) == [axes |-> na, buttons |-> nb, hats |-> nh]

DeviceCaps(d) ==
    IF d = 1 THEN Caps(6, 14, 1)
    ELSE IF d = 2 THEN Caps(4, 7, 0)
    ELSE Caps(0, 0, 0)

(***************************************************************************)
(* Readings.  AxisPatterns are six-axis readings, thousandths; the first   *)
(* is the end-to-end example of the specification.  Patterns 1..4 stay     *)
(* inside [-1, 1], as get_axis does; 5 and 6 leave it and are used only    *)
(* where the normalizer is exercised on arbitrary snapshots.               *)
(***************************************************************************)
AxisPatterns ==
    << <<20, -10, 900, 0, -500, 800>>,
       <<60, -60, 0, 0, -1000, 1000>>,
       <<0, 70, -500, 500, -300, 700>>,
       <<0, 0, 0, 0, -100, 0>>,
       <<-1000, 1000, 510, 0, 1500, -200>>,
       <<0, 0, 0, 10, -210, -1500>> >>

HardwarePatterns == 1..4
AllPatterns      == 1..Len(AxisPatterns)

AxisVal(p, i) == IF i <= Len(AxisPatterns[p]) THEN AxisPatterns[p][i] ELSE 0

\* bp = -1: every button down; bp = 0: none; bp = k > 0: only button k-1 down.
ButtonVal(bp, i) == bp = -1 \/ bp = i

HatVals == { <<0, 0>>, <<1, 0>>, <<-1, 1>> }

EmptyRaw ==
    [axes |-> << >>, buttons |-> << >>, hats |-> << >>, reads |-> 0,
     failed |-> FALSE]

\* Lines 198-200: one get_axis / get_button / get_hat call per reported index.
ReadAll(caps, p, bp, h) ==
    [axes    |-> [i \in 1..caps.axes |-> AxisVal(p, i)],
     buttons |-> [i \in 1..caps.buttons |-> ButtonVal(bp, i)],
     hats    |-> [i \in 1..caps.hats |-> h],
     reads   |-> caps.axes + caps.buttons + caps.hats,
     failed  |-> FALSE]

(***************************************************************************)
(* Python list indexing seq[i], i >= 0: the element, or IndexError.        *)
(***************************************************************************)
Subscript(seq, i, dflt) ==
    IF i < Len(seq) THEN [err |-> FALSE, v |-> seq[i + 1]]
    ELSE [err |-> TRUE, v |-> dflt]

Default(dflt) == [err |-> FALSE, v |-> dflt]

\* Lines 203-206: axes[AXIS] if len(axes) > AXIS else 0.0
StickAxisOffByOne(axes, idx) ==
    IF Len(axes) >= idx THEN Subscript(axes, idx, 0) ELSE Default(0)

StickAxis(axes, idx) ==
    IF Len(axes) > idx THEN Subscript(axes, idx, 0) ELSE Default(0)

\* Lines 234 and 244: len(buttons) > index and buttons[index]
ButtonDown(buttons, idx) ==
    IF Len(buttons) > idx THEN Subscript(buttons, idx, FALSE) ELSE Default(FALSE)

\* Lines 248-249: hats[0] when len(hats) > 0; nothing is drawn otherwise.
Dpad(hats) ==
    IF Len(hats) > 0 THEN Subscript(hats, 0, <<0, 0>>) ELSE Default(<<0, 0>>)

\* A button state used as a number: False is 0.0, True is 1.0.
BoolNum(b) == IF b THEN 1000 ELSE 0

\* Lines 254-255: the trigger axis, else the trigger button, else 0.0
TriggerRaw(axes, buttons, aidx, bidx) ==
    IF Len(axes) > aidx THEN Subscript(axes, aidx, 0)
    ELSE IF Len(buttons) > bidx
         THEN LET b == Subscript(buttons, bidx, FALSE)
              IN  [err |-> b.err, v |-> BoolNum(b.v)]
         ELSE Default(0)

\* Lines 258-264.
norm_trigger_signed(v) ==
    IF v >= -1000 /\ v <= 1000
    THEN IF v < 0 THEN (v + 1000) \div 2 ELSE v
    ELSE 0

norm_trigger(v) ==
    IF v >= -1000 /\ v <= 1000
    THEN IF v < -200 THEN (v + 1000) \div 2 ELSE v
    ELSE 0

\* Lines 225-226.
DriftingInclusive(x, y, dz) == Abs(x) >= dz \/ Abs(y) >= dz

Drifting(x, y, dz) == Abs(x) > dz \/ Abs(y) > dz

\* Lines 238-245: the buttons that get a highlight.
NamedButtons ==
    { <<BTN_X, "button_cross">>, <<BTN_CIRCLE, "button_circle">>,
      <<BTN_SQUARE, "button_square">>, <<BTN_TRIANGLE, "button_triangle">>,
      <<BTN_TOUCH, "touchpad">>, <<BTN_PS, "ps_button">> }

BlankFrame ==
    [nodev |-> FALSE, sampled |-> FALSE,
     lx |-> 0, ly |-> 0, rx |-> 0, ry |-> 0,
     drifting_left |-> FALSE, drifting_right |-> FALSE,
     glow |-> {}, dpad |-> <<0, 0>>, dpad_glow |-> FALSE,
     l2n |-> 0, r2n |-> 0, deadzone |-> 0, debug |-> FALSE, error |-> FALSE]

\* Line 193: only the "No controller detected" message is drawn.
NoDeviceFrame == [BlankFrame EXCEPT !.nodev = TRUE]

\* Lines 203-297: the frame drawn from one snapshot.
ComposeFrame(r, dz, dbg) ==
    LET lx  == StickAxis(r.axes, AXIS_LX)
        ly  == StickAxis(r.axes, AXIS_LY)
        rx  == StickAxis(r.axes, AXIS_RX)
        ry  == StickAxis(r.axes, AXIS_RY)
        btn == [nb \in NamedButtons |-> ButtonDown(r.buttons, nb[1])]
        hat == Dpad(r.hats)
        l2  == TriggerRaw(r.axes, r.buttons, AXIS_L2, BTN_L2)
        r2  == TriggerRaw(r.axes, r.buttons, AXIS_R2, BTN_R2)
    IN  [nodev |-> FALSE, sampled |-> TRUE,
         lx |-> lx.v, ly |-> ly.v, rx |-> rx.v, ry |-> ry.v,
         drifting_left  |-> Drifting(lx.v, ly.v, dz),
         drifting_right |-> Drifting(rx.v, ry.v, dz),
         glow |-> { nb[2] : nb \in { b \in NamedButtons : btn[b].v } },
         dpad |-> hat.v,
         dpad_glow |-> (hat.v[1] # 0 \/ hat.v[2] # 0),
         l2n |-> norm_trigger(l2.v),
         r2n |-> norm_trigger(r2.v),
         deadzone |-> dz,
         debug |-> dbg,
         error |-> (lx.err \/ ly.err \/ rx.err \/ ry.err \/ hat.err
                    \/ l2.err \/ r2.err
                    \/ \E b \in NamedButtons : btn[b].err)]

(***************************************************************************)
(* Deadzone adjustment, lines 171-174.  K_UP lowers the deadzone and       *)
(* K_DOWN raises it.                                                       *)
(***************************************************************************)
DecreaseDeadzone(dz) == Max2(DEADZONE_MIN, dz - DEADZONE_STEP)

IncreaseUnclamped(dz) == dz + DEADZONE_STEP

IncreaseDeadzone(dz) == Min2(DEADZONE_MAX, dz + DEADZONE_STEP)

(***************************************************************************)
(* Hot-plug.  The library notices a connect or a disconnect while it pumps *)
(* events (pygame.event.get() at line 161, pygame.event.pump() at line     *)
(* 196): the enumerated list changes and a JOYDEVICEADDED or               *)
(* JOYDEVICEREMOVED event is queued in the same pump.  A new device is     *)
(* enumerated after the ones already present.                              *)
(***************************************************************************)
DeviceIds == 1..MaxDevices

Members(devs) == { devs[i] : i \in 1..Len(devs) }

Without(devs, d) == SelectSeq(devs, LAMBDA x : x # d)

Plugged(devs)   == { Append(devs, d) : d \in DeviceIds \ Members(devs) }
Unplugged(devs) == { Without(devs, d) : d \in Members(devs) }

\* The list after one pump: unchanged, or one device more, or one less.
PumpResults(devs) == {devs} \cup Plugged(devs) \cup Unplugged(devs)

HotCount(before, after) == IF before = after THEN 0 ELSE 1

(***************************************************************************)
(* Initial state: lines 76-124.  find_joystick() has run once; the haptic  *)
(* driver either initialised or failed to (lines 113-120); the devices     *)
(* present at start-up each have a JOYDEVICEADDED event waiting.           *)
(***************************************************************************)
Init ==
    /\ devices \in { << >>, <<1>> }
    /\ joystick = find_joystick(devices)
    /\ ds \in {"None", "ok"}
    /\ deadzone = DEADZONE
    /\ show_debug = TRUE
    /\ running = TRUE
    /\ pc = "loop"
    /\ nev = 0
    /\ hot = 0
    /\ ev = "none"
    /\ pending = Len(devices)
    /\ raw = EmptyRaw
    /\ frame = BlankFrame
    /\ log = FALSE
    /\ crashed = FALSE

(***************************************************************************)
(* Lines 160-161: "while running" holds; pygame.event.get() pumps and      *)
(* returns the queued events.  A new iteration has drawn nothing yet.      *)
(***************************************************************************)
Get ==
    /\ pc = "loop"
    /\ running
    /\ \E devs \in PumpResults(devices) :
         LET h == pending + HotCount(devices, devs)
         IN  /\ devices' = devs
             /\ hot' = h
             /\ \E n \in h..Max2(h, MaxEvents) : nev' = n
    /\ pending' = 0
    /\ pc' = "events"
    /\ ev' = "none"
    /\ raw' = EmptyRaw
    /\ frame' = BlankFrame
    /\ log' = FALSE
    /\ UNCHANGED <<joystick, ds, deadzone, show_debug, running, crashed>>

\* One iteration of "for ev in pygame.event.get()" for an event that is not
\* a hot-plug event.
Dispatch(kind) ==
    /\ pc = "events"
    /\ nev > hot
    /\ nev' = nev - 1
    /\ ev' = kind
    /\ UNCHANGED <<devices, ds, hot, pending, pc, raw, frame, crashed>>

\* Lines 162-163.
OnQuit ==
    /\ Dispatch("QUIT")
    /\ running' = FALSE
    /\ UNCHANGED <<joystick, deadzone, show_debug, log>>

OnJoyDeviceResets ==
    /\ pc = "events"
    /\ hot > 0
    /\ nev' = nev - 1
    /\ hot' = hot - 1
    /\ ev' = "JOYDEVICE"
    /\ joystick' = find_joystick(devices)
    /\ deadzone' = DEADZONE
    /\ UNCHANGED <<devices, ds, show_debug, running, pending, pc,
                   raw, frame, log, crashed>>

\* Lines 164-167.
OnJoyDevice ==
    /\ pc = "events"
    /\ hot > 0
    /\ nev' = nev - 1
    /\ hot' = hot - 1
    /\ ev' = "JOYDEVICE"
    /\ joystick' = find_joystick(devices)
    /\ UNCHANGED <<devices, ds, deadzone, show_debug, running, pending, pc,
                   raw, frame, log, crashed>>

\* Lines 169-170.
OnKeyD ==
    /\ Dispatch("K_d")
    /\ show_debug' = ~show_debug
    /\ UNCHANGED <<joystick, deadzone, running, log>>

\* Lines 171-172.
OnKeyUp ==
    /\ Dispatch("K_UP")
    /\ deadzone' = DecreaseDeadzone(deadzone)
    /\ UNCHANGED <<joystick, show_debug, running, log>>

\* Lines 173-174.
OnKeyDown ==
    /\ Dispatch("K_DOWN")
    /\ deadzone' = IncreaseDeadzone(deadzone)
    /\ UNCHANGED <<joystick, show_debug, running, log>>

\* What a failed vibration test leaves behind (lines 181-182): a printed line.
RumbleRaisedExits(r, c) == [running |-> FALSE, crashed |-> TRUE, log |-> TRUE]

RumbleRaised(r, c) == [running |-> r, crashed |-> c, log |-> TRUE]

\* Lines 176-182 with ds set: both set_rumble calls return, or one of them
\* raises and the except clause prints the failure.
OnKeyV ==
    /\ pc = "events"
    /\ nev > hot
    /\ ds = "ok"
    /\ nev' = nev - 1
    /\ ev' = "K_v"
    /\ \E raised \in BOOLEAN :
         IF raised
         THEN LET after == RumbleRaised(running, crashed)
              IN  /\ running' = after.running
                  /\ crashed' = after.crashed
                  /\ log' = after.log
                  /\ pc' = IF after.crashed THEN "done" ELSE pc
         ELSE UNCHANGED <<running, crashed, log, pc>>
    /\ UNCHANGED <<devices, joystick, ds, deadzone, show_debug, hot, pending,
                   raw, frame>>

\* Line 176 with ds None: the key does nothing.
OnKeyVNoHaptics ==
    /\ Dispatch("K_v")
    /\ ds = "None"
    /\ UNCHANGED <<joystick, deadzone, show_debug, running, log>>

\* Any other event type or key: no branch of lines 162-182 applies.
OnOther ==
    /\ Dispatch("OTHER")
    /\ UNCHANGED <<joystick, deadzone, show_debug, running, log>>

\* The for loop of line 161 is exhausted; lines 184-189 clear and redraw the
\* background.
EndEvents ==
    /\ pc = "events"
    /\ nev = 0
    /\ pc' = "draw"
    /\ ev' = "none"
    /\ UNCHANGED <<devices, joystick, ds, deadzone, show_debug, running, nev,
                   hot, pending, raw, frame, log, crashed>>

NoControllerFallsThrough ==
    /\ pc = "draw"
    /\ joystick = None
    /\ frame' = ComposeFrame(raw, deadzone, show_debug)
    /\ pc' = "loop"
    /\ UNCHANGED <<devices, joystick, ds, deadzone, show_debug, running, nev,
                   hot, ev, pending, raw, log, crashed>>

\* Lines 192-193 and 299-303: no joystick, nothing is read.
NoController ==
    /\ pc = "draw"
    /\ joystick = None
    /\ frame' = NoDeviceFrame
    /\ pc' = "loop"
    /\ UNCHANGED <<devices, joystick, ds, deadzone, show_debug, running, nev,
                   hot, ev, pending, raw, log, crashed>>

\* Lines 196-200: pump, then read every axis, button and hat of the handle.
Sample ==
    /\ pc = "draw"
    /\ joystick # None
    /\ \E devs \in PumpResults(devices) :
         /\ devices' = devs
         /\ pending' = pending + HotCount(devices, devs)
    /\ \E p \in HardwarePatterns, all \in BOOLEAN, h \in HatVals :
         raw' = ReadAll(DeviceCaps(joystick), p, IF all THEN -1 ELSE 0, h)
    /\ pc' = "norm"
    /\ UNCHANGED <<joystick, ds, deadzone, show_debug, running, nev, hot, ev,
                   frame, log, crashed>>

\* Lines 198-200 when a get_axis / get_button / get_hat call raises: nothing
\* catches the exception and the program ends with a traceback.
SampleRaises ==
    /\ pc = "draw"
    /\ joystick # None
    /\ raw' = [raw EXCEPT !.reads = 1, !.failed = TRUE]
    /\ crashed' = TRUE
    /\ running' = FALSE
    /\ pc' = "done"
    /\ UNCHANGED <<devices, joystick, ds, deadzone, show_debug, nev, hot, ev,
                   pending, frame, log>>

\* Lines 203-303: normalize, classify and draw; an IndexError would leave
\* the loop like any other exception.
Normalize ==
    /\ pc = "norm"
    /\ LET f == ComposeFrame(raw, deadzone, show_debug)
       IN  IF f.error
           THEN /\ crashed' = TRUE
                /\ running' = FALSE
                /\ pc' = "done"
                /\ frame' = frame
           ELSE /\ frame' = f
                /\ pc' = "loop"
                /\ UNCHANGED <<running, crashed>>
    /\ UNCHANGED <<devices, joystick, ds, deadzone, show_debug, nev, hot, ev,
                   pending, raw, log>>

\* Lines 305-312: "while running" fails; clean up and leave.
Cleanup ==
    /\ pc = "loop"
    /\ ~running
    /\ pc' = "done"
    /\ UNCHANGED <<devices, joystick, ds, deadzone, show_debug, running, nev,
                   hot, ev, pending, raw, frame, log, crashed>>

Next ==
    \/ Get
    \/ OnQuit
    \/ OnJoyDevice
    \/ OnKeyD
    \/ OnKeyUp
    \/ OnKeyDown
    \/ OnKeyV
    \/ OnKeyVNoHaptics
    \/ OnOther
    \/ EndEvents
    \/ NoController
    \/ Sample
    \/ SampleRaises
    \/ Normalize
    \/ Cleanup

Spec == Init /\ [][Next]_vars

(***************************************************************************)
(* The normalizer on arbitrary snapshots: a device with any capability     *)
(* counts up to MaxAxes / MaxButtons / MaxHats has just been sampled, with *)
(* readings that may leave [-1, 1], and lines 203-303 run on the result.   *)
(***************************************************************************)
InitNorm ==
    /\ devices = <<1>>
    /\ joystick = 1
    /\ ds = "None"
    /\ deadzone = DEADZONE
    /\ show_debug = TRUE
    /\ running = TRUE
    /\ pc = "norm"
    /\ nev = 0
    /\ hot = 0
    /\ ev = "none"
    /\ pending = 0
    /\ \E na \in 0..MaxAxes, nb \in 0..MaxButtons, nh \in 0..MaxHats :
         \E p \in AllPatterns, bp \in -1..nb, h \in HatVals :
            raw = ReadAll(Caps(na, nb, nh), p, bp, h)
    /\ frame = BlankFrame
    /\ log = FALSE
    /\ crashed = FALSE

NextNorm == Normalize

SpecNorm == InitNorm /\ [][NextNorm]_vars

(***************************************************************************)
(* Properties.                                                             *)
(***************************************************************************)

\* What the snapshot holds at a mapped index, as the claims word it.
HasAxis(r, i)   == i + 1 \in DOMAIN r.axes
HasButton(r, i) == i + 1 \in DOMAIN r.buttons
RawAxis(r, i)   == IF HasAxis(r, i) THEN r.axes[i + 1] ELSE 0

\* A step that dispatches one event of the given kinds.
Dispatched(kinds) == pc = "events" /\ nev' = nev - 1 /\ ev' \in kinds

\* C1: in every tick that samples a device, the normalized L2 and R2 values
\* lie in [0, 1].
C1_TriggerInUnitRange ==
    frame.sampled =>
        /\ 0 <= frame.l2n /\ frame.l2n <= 1000
        /\ 0 <= frame.r2n /\ frame.r2n <= 1000

\* The dual-range reference function and its input selection, from the claim.
RefTriggerInput(r, aidx, bidx) ==
    IF HasAxis(r, aidx) THEN r.axes[aidx + 1]
    ELSE IF HasButton(r, bidx) THEN (IF r.buttons[bidx + 1] THEN 1000 ELSE 0)
    ELSE 0

RefTrigger(v) ==
    CASE -1000 <= v /\ v < -200 -> (v + 1000) \div 2
      [] -200 <= v /\ v <= 1000 -> v
      [] OTHER -> 0

C3_DriftFlags ==
    frame.sampled =>
        /\ frame.drifting_left =
             (Abs(RawAxis(raw, 0)) > deadzone \/ Abs(RawAxis(raw, 1)) > deadzone)
        /\ frame.drifting_right =
             (Abs(RawAxis(raw, 2)) > deadzone \/ Abs(RawAxis(raw, 3)) > deadzone)

\* A left stick resting exactly at a deadzone that was raised from the default.
C3_Witness ==
    /\ frame.sampled
    /\ deadzone = 70
    /\ RawAxis(raw, 0) = 0 /\ RawAxis(raw, 1) = 70
    /\ ~frame.drifting_left
    /\ frame.drifting_right

\* C4: the deadzone stays in [0.0, 0.5]; an increase adds 0.01 capped at 0.5
\* and a decrease subtracts 0.01 floored at 0.0.
C4_DeadzoneBounds ==
    /\ [](0 <= deadzone /\ deadzone <= 500)
    /\ [][ /\ Dispatched({"K_DOWN"}) =>
                deadzone' = IF deadzone + 10 > 500 THEN 500 ELSE deadzone + 10
           /\ Dispatched({"K_UP"}) =>
                deadzone' = IF deadzone - 10 < 0 THEN 0 ELSE deadzone - 10 ]_vars

C4_Witness == deadzone = 500 /\ ev = "K_DOWN"

\* C5: for every combination of capability counts, normalizing never indexes
\* past the end of a list; an absent stick axis reads 0.0, an absent named
\* button reads false and the d-pad reads (0,0) when there is no hat.
C5_MissingIndexSafe ==
    /\ ~crashed
    /\ pc = "loop" => frame.sampled /\ ~frame.error
    /\ frame.sampled =>
         /\ ~HasAxis(raw, 0) => frame.lx = 0
         /\ ~HasAxis(raw, 1) => frame.ly = 0
         /\ ~HasAxis(raw, 2) => frame.rx = 0
         /\ ~HasAxis(raw, 3) => frame.ry = 0
         /\ ~HasButton(raw, 0) => "button_cross" \notin frame.glow
         /\ ~HasButton(raw, 1) => "button_circle" \notin frame.glow
         /\ ~HasButton(raw, 2) => "button_square" \notin frame.glow
         /\ ~HasButton(raw, 3) => "button_triangle" \notin frame.glow
         /\ ~HasButton(raw, 12) => "ps_button" \notin frame.glow
         /\ ~HasButton(raw, 13) => "touchpad" \notin frame.glow
         /\ Len(raw.hats) = 0 => frame.dpad = <<0, 0>> /\ ~frame.dpad_glow

\* One axis, thirteen buttons with PS held, no hat.
C5_Witness ==
    /\ frame.sampled
    /\ Len(raw.axes) = 1 /\ Len(raw.buttons) = 13 /\ Len(raw.hats) = 0
    /\ frame.ly = 0 /\ frame.rx = 0 /\ frame.ry = 0
    /\ frame.glow = {"ps_button"}
    /\ frame.dpad = <<0, 0>>

\* C6: a rescan that finds no device clears the open device; a tick with no
\* open device completes, reads nothing and shows no drift, button or d-pad.
C6_NoDevice ==
    /\ [][ (Dispatched({"JOYDEVICE"}) /\ Len(devices) = 0) =>
               joystick' = None ]_vars
    /\ [][ (pc = "draw" /\ joystick = None) =>
               /\ pc' = "loop"
               /\ running' = running
               /\ ~crashed'
               /\ frame'.nodev
               /\ raw'.reads = 0 /\ raw'.axes = << >>
               /\ raw'.buttons = << >> /\ raw'.hats = << >>
               /\ ~frame'.sampled
               /\ ~frame'.drifting_left /\ ~frame'.drifting_right
               /\ frame'.glow = {} /\ ~frame'.dpad_glow ]_vars
    /\ []((pc = "loop" /\ joystick = None /\ frame # BlankFrame) => frame.nodev)

\* A no-device frame drawn after the deadzone was adjusted, so not the first tick.
C6_Witness ==
    /\ frame.nodev /\ pc = "loop" /\ running
    /\ joystick = None /\ Len(devices) = 0
    /\ deadzone # 60

\* C7: once a tick's events are processed, the tracked device is the first
\* of the enumerated devices, none exactly when there is none; a rescan with
\* the tracked device still first leaves it tracked.
C7_SingleDevice ==
    /\ [](pc = "draw" =>
            /\ joystick \in {None} \cup { devices[i] : i \in 1..Len(devices) }
            /\ (joystick = None) = (Len(devices) = 0)
            /\ Len(devices) > 0 => joystick = devices[1])
    /\ [][ (Dispatched({"JOYDEVICE"}) /\ Len(devices) > 0
            /\ joystick = devices[1]) => joystick' = joystick ]_vars

\* A second device is connected while the first is tracked.
C7_Witness ==
    pc = "draw" /\ Len(devices) = 2 /\ joystick = devices[1]

\* C8: a failing hardware read does not end the tick loop.
C8_ReadFailureRecovered ==
    raw.failed => (~crashed /\ pc # "done")

\* C9: a failed haptic initialization or a raising rumble command leaves the
\* open device, the deadzone, the debug flag and the loop as they were, and
\* the tick still samples and classifies.
C9_HapticFailureHarmless ==
    /\ [][ (ev' = "K_v" /\ log' /\ ~log) =>
               /\ joystick' = joystick
               /\ deadzone' = deadzone
               /\ show_debug' = show_debug
               /\ running' = running
               /\ crashed' = crashed
               /\ ds' = ds
               /\ pc' = "events" ]_vars
    /\ []((pc = "loop" /\ frame # BlankFrame /\ joystick # None
           /\ (log \/ ds = "None")) => frame.sampled)

\* A tick in which the vibration test failed and the sticks were classified.
C9_Witness ==
    log /\ pc = "loop" /\ frame.sampled /\ frame.drifting_right /\ running

\* C10: the deadzone changes only on K_UP / K_DOWN and the debug flag only
\* on K_d; no configuration key changes the open device.
C10_ConfigFrame ==
    [][ /\ deadzone' # deadzone => Dispatched({"K_UP", "K_DOWN"})
        /\ show_debug' # show_debug => Dispatched({"K_d"})
        /\ Dispatched({"K_d", "K_UP", "K_DOWN"}) => joystick' = joystick ]_vars

\* Both settings were changed and a device was then sampled.
C10_Witness ==
    ~show_debug /\ deadzone # 60 /\ frame.sampled /\ frame.deadzone = deadzone

====
